---- MODULE Spec2Model ----
(***************************************************************************)
(* SI spread over a data-driven dynamic network (dynamic_nets_direct.h).   *)
(*                                                                         *)
(* Three specifications share this module:                                 *)
(*   SpecIndex    - the direct DynamicNet index: addUpdate and             *)
(*                  checkInteraction on arbitrary records;                 *)
(*   SpecIndirect - the indirect DynamicNet index: addUpdate and           *)
(*                  getTimeSinceUpdate;                                    *)
(*   Spec         - the program: main, the loader, doRuns, the map          *)
(*                  simulation calling SIMap::fn node by node.             *)
(*                                                                         *)
(* Reals are modelled by integers: times are multiples of TimeGrain,       *)
(* probabilities and random draws are counted in units of 1/ProbScale.     *)
(***************************************************************************)
EXTENDS Integers, Sequences, FiniteSets, TLC

----------------------------------------------------------------------------
(* Bounds *)

NumNodes == 3
MaxRecords == 2
MaxTick == 1
TimeGrain == 10
ProbScale == 2
MaxRuns == 2
MaxLen == 2
MaxITime == 2
MaxOutFreq == 3

(* Program constants *)

NoContact == -1
Contact == 1
NeverInfected == -1
Susceptible == 0
Infected == 1
MinArgc == 9
MaxArgc == 11
PrefixArgc == 10
AllAnts == -1

----------------------------------------------------------------------------

Nodes == 0 .. (NumNodes - 1)
Times == {TimeGrain * k : k \in 0 .. MaxTick}
WindowBounds == {TimeGrain * k : k \in 0 .. (MaxTick + 1)}
RndVals == 0 .. ProbScale
ProbVals == 0 .. ProbScale
TimestepVals == {TimeGrain, 2 * TimeGrain}
ArgcVals == (MinArgc - 1) .. (MaxArgc + 1)
AntVals == {AllAnts} \cup (0 .. (NumNodes + 1))

VARIABLES
    pc,            \* position of the program / which API is being exercised
    states,        \* direct index: flat m_size*m_size table of record sequences
    infectedTime,  \* infected-time table
    nRecords,      \* records added so far (bounded by MaxRecords)
    query,         \* last checkInteraction / getTimeSinceUpdate call and result
    added,         \* the addUpdate calls made so far, in order
    istates,       \* indirect index: flat table of record sequences
    exitCode,      \* value returned by main, -1 while running
    probSI, ts, simLen, runs, antArg,   \* command line arguments
    ant,           \* doRuns' seed node (0-based)
    initial,       \* doRuns' initial state vector
    i,             \* doRuns' run counter
    t,             \* timestep of the running simulation
    v,             \* node whose fn is called next in this timestep
    x, dx,         \* current and next state vector
    xOut,          \* observed trajectory of the current run
    writes,        \* setInfectedTime calls since the current run began
    argc,          \* main's argument count, 0 before main has read it
    outFreq,       \* command line argument OUT_FREQ
    outFile,       \* rows written to the output file doRuns has open
    lastFn         \* the last call of fn, where calls are traced

vars == <<pc, states, infectedTime, nRecords, query, added, istates, exitCode,
          probSI, ts, simLen, runs, antArg, ant, initial, i, t, v, x, dx,
          xOut, writes, argc, outFreq, outFile, lastFn>>

simVars == <<exitCode, probSI, ts, simLen, runs, antArg, ant, initial, i, t,
             v, x, dx, xOut, writes, argc, outFreq, outFile, lastFn>>

m_size == NumNodes

EmptyIndex == [c \in 0 .. (m_size * m_size - 1) |-> <<>>]

NoFn == [vID |-> -1, xs |-> <<>>, tm |-> 0, dx |-> 0, tested |-> <<>>]

NoQuery == [from |-> -1, to |-> -1, s |-> 0, e |-> 0, result |-> 0]

----------------------------------------------------------------------------
(* Direct DynamicNet *)

getState(to, from) == (m_size * from) + to

addUpdateOneWay(st, from, to, fromTime, toTime) ==
    [st EXCEPT ![getState(from, to)] = Append(@, <<fromTime, toTime>>)]

addUpdate(st, from, to, fromTime, toTime) ==
    LET st1 == [st EXCEPT ![getState(from, to)] = Append(@, <<fromTime, toTime>>)]
    IN  [st1 EXCEPT ![getState(to, from)] = Append(@, <<fromTime, toTime>>)]

RECURSIVE scanInteraction(_, _, _, _)
scanInteraction(cell, k, t_start, t_end) ==
    IF k > Len(cell) THEN NoContact
    ELSE IF \/ (cell[k][1] >= t_start /\ cell[k][1] < t_end)
            \/ (cell[k][2] >= t_start /\ cell[k][2] < t_end)
         THEN Contact
         ELSE scanInteraction(cell, k + 1, t_start, t_end)

RECURSIVE scanFirstOnly(_, _, _, _)
scanFirstOnly(cell, k, t_start, t_end) ==
    IF k > Len(cell) THEN NoContact
    ELSE IF cell[k][1] >= t_start /\ cell[k][1] < t_end
         THEN Contact
         ELSE scanFirstOnly(cell, k + 1, t_start, t_end)

checkInteractionFirstOnly(st, from, to, t_start, t_end) ==
    IF Len(st[getState(from, to)]) = 0 THEN NoContact
    ELSE scanFirstOnly(st[getState(from, to)], 1, t_start, t_end)

checkInteraction(st, from, to, t_start, t_end) ==
    IF Len(st[getState(from, to)]) = 0 THEN NoContact
    ELSE scanInteraction(st[getState(from, to)], 1, t_start, t_end)

getInfectedTime(node) == infectedTime[node]

setInfectedTime(tbl, node, time) == [tbl EXCEPT ![node] = time]

getSize == m_size

----------------------------------------------------------------------------
(* SpecIndex: the direct index driven through its interface *)

IdleSim ==
    /\ exitCode = -1
    /\ probSI = 0 /\ ts = TimeGrain /\ simLen = 0 /\ runs = 0 /\ antArg = 0
    /\ ant = 0
    /\ initial = [n \in Nodes |-> Susceptible]
    /\ i = 0 /\ t = 0 /\ v = 0
    /\ x = [n \in Nodes |-> Susceptible]
    /\ dx = [n \in Nodes |-> Susceptible]
    /\ xOut = <<>>
    /\ writes = <<>>
    /\ argc = 0 /\ outFreq = 1
    /\ outFile = <<>>
    /\ lastFn = NoFn

InitIndex ==
    /\ pc = "index"
    /\ states = EmptyIndex
    /\ istates = EmptyIndex
    /\ infectedTime = [n \in Nodes |-> NeverInfected]
    /\ nRecords = 0
    /\ query = NoQuery
    /\ added = <<>>
    /\ IdleSim

AddRecord ==
    /\ pc = "index"
    /\ nRecords < MaxRecords
    /\ \E from \in Nodes, to \in Nodes, t1 \in Times, t2 \in Times :
          /\ states' = addUpdate(states, from, to, t1, t2)
          /\ added' = Append(added, [from |-> from, to |-> to, t1 |-> t1, t2 |-> t2])
    /\ nRecords' = nRecords + 1
    /\ query' = NoQuery
    /\ UNCHANGED <<pc, infectedTime, istates, simVars>>

CheckInteraction ==
    /\ pc = "index"
    /\ \E from \in Nodes, to \in Nodes, s \in WindowBounds, e \in WindowBounds :
          query' = [from |-> from, to |-> to, s |-> s, e |-> e,
                    result |-> checkInteraction(states, from, to, s, e)]
    /\ UNCHANGED <<pc, states, infectedTime, nRecords, added, istates, simVars>>

NextIndex == AddRecord \/ CheckInteraction

SpecIndex == InitIndex /\ [][NextIndex]_vars

----------------------------------------------------------------------------
(* Claims on the direct index *)

cellOf(from, to) == states[getState(from, to)]

EndpointInWindow(rec, s, e) ==
    \/ (s <= rec[1] /\ rec[1] < e)
    \/ (s <= rec[2] /\ rec[2] < e)

\* C1: checkInteraction(from,to,s,e) reports contact (1.0) if and only if some
\* record stored in cell (from,to) has t1 or t2 in [s,e); otherwise, and for
\* an empty cell, it reports no contact (-1.0).
C1_CheckInteractionIffEndpointInWindow ==
    query.from # -1 =>
        /\ query.result \in {Contact, NoContact}
        /\ (query.result = Contact) <=>
              (\E k \in 1 .. Len(cellOf(query.from, query.to)) :
                  EndpointInWindow(cellOf(query.from, query.to)[k], query.s, query.e))
        /\ (cellOf(query.from, query.to) = <<>>) => (query.result = NoContact)

\* a query answered "contact" only because of a record's second timestamp,
\* in a cell holding two records
C1_Witness ==
    /\ pc = "index"
    /\ query.from # -1
    /\ query.result = Contact
    /\ Len(cellOf(query.from, query.to)) = 2
    /\ \A k \in 1 .. 2 :
          ~(query.s <= cellOf(query.from, query.to)[k][1]
              /\ cellOf(query.from, query.to)[k][1] < query.e)

\* C7: after any sequence of addUpdate calls (from = to included) cell (a,b)
\* and cell (b,a) hold the same record sequence, and every inserted record is
\* in both cell (from,to) and cell (to,from).
C7_DirectCellsSymmetric ==
    /\ \A a \in Nodes, b \in Nodes : cellOf(a, b) = cellOf(b, a)
    /\ \A n \in 1 .. Len(added) :
          /\ \E k \in 1 .. Len(cellOf(added[n].from, added[n].to)) :
                cellOf(added[n].from, added[n].to)[k] = <<added[n].t1, added[n].t2>>
          /\ \E k \in 1 .. Len(cellOf(added[n].to, added[n].from)) :
                cellOf(added[n].to, added[n].from)[k] = <<added[n].t1, added[n].t2>>

\* two records added, one between distinct nodes and one from a node to itself
C7_Witness ==
    /\ pc = "index"
    /\ Len(added) = 2
    /\ added[1].from # added[1].to
    /\ added[2].from = added[2].to

----------------------------------------------------------------------------
(* Indirect DynamicNet *)

ITimes == 0 .. MaxITime

indirect_addUpdate(st, from, to, fromTime, toTime) ==
    [st EXCEPT ![getState(from, to)] = Append(@, <<fromTime, toTime>>)]

\* the for loop of getTimeSinceUpdate: <<l, r>> when it ends
RECURSIVE lastCrossing(_, _, _, _, _)
lastCrossing(cell, k, time, l, r) ==
    IF k > Len(cell) THEN <<l, r>>
    ELSE IF cell[k][1] > time THEN <<l, r>>
         ELSE lastCrossing(cell, k + 1, time, cell[k][1], cell[k][2])

\* the loop keeping the first record it meets with first = t
RECURSIVE firstCrossing(_, _, _, _, _)
firstCrossing(cell, k, time, l, r) ==
    IF k > Len(cell) THEN <<l, r>>
    ELSE IF cell[k][1] >= time THEN <<cell[k][1], cell[k][2]>>
         ELSE firstCrossing(cell, k + 1, time, cell[k][1], cell[k][2])

getTimeSinceUpdateFirstMatch(st, from, to, time) ==
    LET cell == st[getState(from, to)] IN
    IF Len(cell) = 0 THEN NoContact
    ELSE IF cell[1][1] > time THEN NoContact
    ELSE LET lr == firstCrossing(cell, 1, time, 0, 0) IN
         IF time = lr[1] THEN time - lr[2] ELSE NoContact

\* getTimeSinceUpdate without the final test t == l
getTimeSinceUpdateNoGate(st, from, to, time) ==
    LET cell == st[getState(from, to)] IN
    IF Len(cell) = 0 THEN NoContact
    ELSE IF cell[1][1] > time THEN NoContact
    ELSE LET lr == lastCrossing(cell, 1, time, 0, 0) IN
         time - lr[2]

getTimeSinceUpdate(st, from, to, time) ==
    LET cell == st[getState(from, to)] IN
    IF Len(cell) = 0 THEN NoContact
    ELSE IF cell[1][1] > time THEN NoContact
    ELSE LET lr == lastCrossing(cell, 1, time, 0, 0) IN
         IF time = lr[1] THEN time - lr[2] ELSE NoContact

----------------------------------------------------------------------------
(* SpecIndirect: the indirect index driven through its interface *)

InitIndirect ==
    /\ pc = "indirect"
    /\ states = EmptyIndex
    /\ istates = EmptyIndex
    /\ infectedTime = [n \in Nodes |-> NeverInfected]
    /\ nRecords = 0
    /\ query = NoQuery
    /\ added = <<>>
    /\ IdleSim

IndirectAddRecord ==
    /\ pc = "indirect"
    /\ nRecords < MaxRecords
    /\ \E from \in Nodes, to \in Nodes, t1 \in ITimes, t2 \in ITimes :
          istates' = indirect_addUpdate(istates, from, to, t1, t2)
    /\ nRecords' = nRecords + 1
    /\ query' = NoQuery
    /\ UNCHANGED <<pc, states, infectedTime, added, simVars>>

GetTimeSinceUpdate ==
    /\ pc = "indirect"
    /\ \E from \in Nodes, to \in Nodes, time \in ITimes :
          query' = [from |-> from, to |-> to, s |-> time, e |-> time,
                    result |-> getTimeSinceUpdate(istates, from, to, time)]
    /\ UNCHANGED <<pc, states, infectedTime, nRecords, added, istates, simVars>>

NextIndirect == IndirectAddRecord \/ GetTimeSinceUpdate

SpecIndirect == InitIndirect /\ [][NextIndirect]_vars

----------------------------------------------------------------------------
(* Claims on the indirect index *)

icellOf(from, to) == istates[getState(from, to)]

SortedByFirst(cell) ==
    \A k \in 1 .. (Len(cell) - 1) : cell[k][1] <= cell[k + 1][1]

IndirectQueried == pc = "indirect" /\ query.from # -1

\* C6 as stated: on a cell sorted ascending by t1, getTimeSinceUpdate answers
\* "no contact" for every t before the first record's t1, and for t equal to
\* the t1 of a record it answers t - t2 of that record (of each such record).
C6_TimeSinceUpdateOfEveryMatch ==
    LET cell == icellOf(query.from, query.to) IN
    (IndirectQueried /\ cell # <<>> /\ SortedByFirst(cell)) =>
        /\ (query.s < cell[1][1]) => (query.result = NoContact)
        /\ \A k \in 1 .. Len(cell) :
              (cell[k][1] = query.s) => (query.result = query.s - cell[k][2])

\* C6 amended: on a cell sorted ascending by t1, getTimeSinceUpdate answers
\* "no contact" for every t before the first record's t1, and for t equal to
\* the t1 of some record it answers t - t2 of the last record of the cell
\* that has this t1.
C6_TimeSinceUpdateOfLastMatch ==
    LET cell == icellOf(query.from, query.to) IN
    (IndirectQueried /\ cell # <<>> /\ SortedByFirst(cell)) =>
        /\ (query.s < cell[1][1]) => (query.result = NoContact)
        /\ \A k \in 1 .. Len(cell) :
              (/\ cell[k][1] = query.s
               /\ \A j \in (k + 1) .. Len(cell) : cell[j][1] # query.s)
              => (query.result = query.s - cell[k][2])

\* a query at the shared t1 of two records with different t2
C6_Witness ==
    LET cell == icellOf(query.from, query.to) IN
    /\ IndirectQueried
    /\ Len(cell) = 2
    /\ cell[1][1] = query.s /\ cell[2][1] = query.s
    /\ cell[1][2] # cell[2][2]
    /\ query.result = query.s - cell[2][2]

\* C19: on a cell sorted ascending by t1, getTimeSinceUpdate answers "no
\* contact" for every t that is not the t1 of a record of the cell, also
\* when records with t1 < t exist.
C19_StrictEqualityGate ==
    LET cell == icellOf(query.from, query.to) IN
    (/\ IndirectQueried
     /\ SortedByFirst(cell)
     /\ \A k \in 1 .. Len(cell) : cell[k][1] # query.s)
    => (query.result = NoContact)

\* a query after the t1 of every record of a sorted cell of two records,
\* the later one with a t2 that would give an elapsed time of 0
C19_Witness ==
    LET cell == icellOf(query.from, query.to) IN
    /\ IndirectQueried
    /\ Len(cell) = 2
    /\ SortedByFirst(cell)
    /\ cell[2][1] < query.s
    /\ cell[2][2] = query.s
    /\ query.result = NoContact

\* C20 as stated: getTimeSinceUpdate answers the sentinel -1.0 only when no
\* contact is active at t: the cell is empty, t is before the first record,
\* or no record has t1 = t.
C20_SentinelOnlyWithoutContact ==
    LET cell == icellOf(query.from, query.to) IN
    (IndirectQueried /\ query.result = NoContact) =>
        \/ cell = <<>>
        \/ query.s < cell[1][1]
        \/ \A k \in 1 .. Len(cell) : cell[k][1] # query.s

----------------------------------------------------------------------------
(* SIMap::fn *)

Draws == [1 .. (m_size - 1) -> RndVals]

\* fnSearch without the test that neighbour i is infected
RECURSIVE fnSearchAnyNeighbour(_, _, _, _, _, _)
fnSearchAnyNeighbour(vID, xs, tt, k, ds, tested) ==
    IF k >= getSize THEN [hit |-> FALSE, tested |-> tested]
    ELSE IF /\ k # vID
            /\ checkInteraction(states, k, vID, tt, tt + ts) # NoContact
         THEN LET rnd == ds[Len(tested) + 1]
                  now == Append(tested, [id |-> k, rnd |-> rnd])
              IN  IF rnd <= probSI
                  THEN [hit |-> TRUE, tested |-> now]
                  ELSE fnSearchAnyNeighbour(vID, xs, tt, k + 1, ds, now)
         ELSE fnSearchAnyNeighbour(vID, xs, tt, k + 1, ds, tested)

\* fnSearch comparing the draw with < instead of <=
RECURSIVE fnSearchStrictDraw(_, _, _, _, _, _)
fnSearchStrictDraw(vID, xs, tt, k, ds, tested) ==
    IF k >= getSize THEN [hit |-> FALSE, tested |-> tested]
    ELSE IF /\ k # vID
            /\ xs[k] = Infected
            /\ checkInteraction(states, k, vID, tt, tt + ts) # NoContact
         THEN LET rnd == ds[Len(tested) + 1]
                  now == Append(tested, [id |-> k, rnd |-> rnd])
              IN  IF rnd < probSI
                  THEN [hit |-> TRUE, tested |-> now]
                  ELSE fnSearchStrictDraw(vID, xs, tt, k + 1, ds, now)
         ELSE fnSearchStrictDraw(vID, xs, tt, k + 1, ds, tested)

\* fnSearch without the break after a successful draw
RECURSIVE fnSearchNoBreak(_, _, _, _, _, _)
fnSearchNoBreak(vID, xs, tt, k, ds, tested) ==
    IF k >= getSize THEN [hit |-> FALSE, tested |-> tested]
    ELSE IF /\ k # vID
            /\ xs[k] = Infected
            /\ checkInteraction(states, k, vID, tt, tt + ts) # NoContact
         THEN LET rnd == ds[Len(tested) + 1]
                  now == Append(tested, [id |-> k, rnd |-> rnd])
                  rest == fnSearchNoBreak(vID, xs, tt, k + 1, ds, now)
              IN  [hit |-> (rnd <= probSI) \/ rest.hit, tested |-> rest.tested]
         ELSE fnSearchNoBreak(vID, xs, tt, k + 1, ds, tested)

\* the for loop over the neighbours i = k .. getSize-1 of node vID; ds is the
\* stream of values sys.rnd() returns, tested the neighbours a value was drawn
\* for so far, each with its value
RECURSIVE fnSearch(_, _, _, _, _, _)
fnSearch(vID, xs, tt, k, ds, tested) ==
    IF k >= getSize THEN [hit |-> FALSE, tested |-> tested]
    ELSE IF /\ k # vID
            /\ xs[k] = Infected
            /\ checkInteraction(states, k, vID, tt, tt + ts) # NoContact
         THEN LET rnd == ds[Len(tested) + 1]
                  now == Append(tested, [id |-> k, rnd |-> rnd])
              IN  IF rnd <= probSI
                  THEN [hit |-> TRUE, tested |-> now]
                  ELSE fnSearch(vID, xs, tt, k + 1, ds, now)
         ELSE fnSearch(vID, xs, tt, k + 1, ds, tested)

\* fn whose last statement stores Susceptible instead of x[vID]
fnForgetInfected(vID, xs, tm, ds) ==
    LET tt == ts * tm IN
    IF xs[vID] = Susceptible
    THEN LET r == fnSearch(vID, xs, tt, 0, ds, <<>>) IN
         IF r.hit
         THEN [dx |-> Infected, set |-> TRUE, time |-> tt, tested |-> r.tested]
         ELSE [dx |-> Susceptible, set |-> FALSE, time |-> tt, tested |-> r.tested]
    ELSE [dx |-> Susceptible, set |-> FALSE, time |-> tt, tested |-> <<>>]

\* fn without the test that node vID is uninfected
fnNoStateGuard(vID, xs, tm, ds) ==
    LET tt == ts * tm
        r == fnSearch(vID, xs, tt, 0, ds, <<>>)
    IN  IF r.hit
        THEN [dx |-> Infected, set |-> TRUE, time |-> tt, tested |-> r.tested]
        ELSE [dx |-> xs[vID], set |-> FALSE, time |-> tt, tested |-> r.tested]

\* fn testing the neighbours' state in dx, the vector being written
fnReadsDx(vID, xs, tm, ds) ==
    LET tt == ts * tm IN
    IF xs[vID] = Susceptible
    THEN LET r == fnSearch(vID, dx, tt, 0, ds, <<>>) IN
         IF r.hit
         THEN [dx |-> Infected, set |-> TRUE, time |-> tt, tested |-> r.tested]
         ELSE [dx |-> xs[vID], set |-> FALSE, time |-> tt, tested |-> r.tested]
    ELSE [dx |-> xs[vID], set |-> FALSE, time |-> tt, tested |-> <<>>]

\* one call fn(v, sys, x, dx, t): the value stored in dx[vID], whether
\* setInfectedTime(vID, time) was called, and the draws made
fn(vID, xs, tm, ds) ==
    LET tt == ts * tm IN
    IF xs[vID] = Susceptible
    THEN LET r == fnSearch(vID, xs, tt, 0, ds, <<>>) IN
         IF r.hit
         THEN [dx |-> Infected, set |-> TRUE, time |-> tt, tested |-> r.tested]
         ELSE [dx |-> xs[vID], set |-> FALSE, time |-> tt, tested |-> r.tested]
    ELSE [dx |-> xs[vID], set |-> FALSE, time |-> tt, tested |-> <<>>]

----------------------------------------------------------------------------
(* Spec: the program *)

LenVals == {MaxLen}
RunsVals == {MaxRuns}

Init ==
    /\ pc = "main"
    /\ states = EmptyIndex
    /\ istates = EmptyIndex
    /\ infectedTime = [n \in Nodes |-> NeverInfected]
    /\ nRecords = 0
    /\ query = NoQuery
    /\ added = <<>>
    /\ IdleSim

\* main up to the construction of the network: argument count and parsing;
\* the sets are those the arguments are drawn from
mainArgs(argcs, probs, tss, ants, freqs) ==
    /\ pc = "main"
    /\ \E n \in argcs :
          /\ argc' = n
          /\ IF n < MinArgc \/ n > MaxArgc
             THEN /\ exitCode' = 1
                  /\ pc' = "exit"
                  /\ UNCHANGED <<probSI, ts, simLen, runs, antArg, outFreq>>
             ELSE /\ probSI' \in probs
                  /\ ts' \in tss
                  /\ simLen' \in LenVals
                  /\ runs' \in RunsVals
                  /\ antArg' \in ants
                  /\ outFreq' \in freqs
                  /\ pc' = "load"
                  /\ UNCHANGED exitCode
    /\ UNCHANGED <<states, infectedTime, nRecords, query, added, istates,
                   ant, initial, i, t, v, x, dx, xOut, writes, outFile, lastFn>>

\* argument counts of Spec: too few, the one that sets PREFIX, too many
SpecArgcVals == {MinArgc - 1, PrefixArgc, MaxArgc + 1}

Main == mainArgs(SpecArgcVals, ProbVals, TimestepVals, AntVals, {1})

\* the constructor's loop: one line of a file of at most max lines, node ids
\* 1-based
loadLine(max) ==
    /\ pc = "load"
    /\ nRecords < max
    /\ \E from \in 1 .. m_size, to \in 1 .. m_size, t1 \in Times, t2 \in Times :
          states' = addUpdate(states, from - 1, to - 1, t1, t2)
    /\ nRecords' = nRecords + 1
    /\ UNCHANGED <<pc, infectedTime, query, added, istates, simVars>>

LoadLine == loadLine(MaxRecords)

\* what sprintf(buf, "%sANT-%i.txt", prefix, ant+1) can do: prefix is set
\* only when argc is PrefixArgc, otherwise it is read uninitialised
sprintfOutcomes == IF argc = PrefixArgc THEN {"written"} ELSE {"written", "crash"}

\* doRuns up to its loop over the runs
EnterDoRuns(a) ==
    /\ ant' = a
    /\ initial' = [n \in Nodes |-> IF n = a THEN Infected ELSE Susceptible]
    /\ infectedTime' = setInfectedTime(infectedTime, a, 0)
    /\ writes' = Append(writes, [node |-> a, time |-> 0, step |-> -1])
    /\ \E outcome \in sprintfOutcomes :
          IF outcome = "crash"
          THEN /\ pc' = "crashed"
               /\ UNCHANGED <<i, outFile>>
          ELSE /\ i' = 0
               /\ outFile' = <<>>
               /\ pc' = "runs"
    /\ UNCHANGED exitCode

\* end of the file, then main's choice of the ants to run
LoadEof ==
    /\ pc = "load"
    /\ IF antArg = AllAnts
       THEN EnterDoRuns(0)
       ELSE IF antArg > 0 /\ antArg <= m_size
            THEN EnterDoRuns(antArg - 1)
            ELSE /\ exitCode' = 1
                 /\ pc' = "exit"
                 /\ UNCHANGED <<ant, initial, infectedTime, writes, i, outFile>>
    /\ UNCHANGED <<states, nRecords, query, added, istates, probSI, ts,
                   simLen, runs, antArg, t, v, x, dx, xOut, argc, outFreq, lastFn>>

\* RunBegin handing simulate the state the previous run ended in instead of
\* a copy of the initial state
RunBeginKeepsState ==
    /\ pc = "runs"
    /\ i < runs
    /\ x' = IF i = 0 THEN initial ELSE x
    /\ dx' = x'
    /\ xOut' = <<x'>>
    /\ t' = 0
    /\ v' = 0
    /\ writes' = <<>>
    /\ lastFn' = NoFn
    /\ pc' = "sim"
    /\ UNCHANGED <<states, infectedTime, nRecords, query, added, istates,
                   exitCode, probSI, ts, simLen, runs, antArg, ant, initial, i,
                   argc, outFreq, outFile>>

\* top of doRuns' loop: the copy of the initial state, the cleared output
\* vectors, and the start of simulate, which observes the initial state
RunBegin ==
    /\ pc = "runs"
    /\ i < runs
    /\ x' = initial
    /\ dx' = initial
    /\ xOut' = <<initial>>
    /\ t' = 0
    /\ v' = 0
    /\ writes' = <<>>
    /\ lastFn' = NoFn
    /\ pc' = "sim"
    /\ UNCHANGED <<states, infectedTime, nRecords, query, added, istates,
                   exitCode, probSI, ts, simLen, runs, antArg, ant, initial, i,
                   argc, outFreq, outFile>>

\* simulate calls fn for node v at timestep t; after the last node the new
\* state replaces the old one and is observed.  With traced, the call, its
\* result and its draws are kept in lastFn.
fnCall(traced) ==
    /\ pc = "sim"
    /\ t < simLen
    /\ \E ds \in Draws :
          LET r == fn(v, x, t, ds)
              ndx == [dx EXCEPT ![v] = r.dx]
          IN  /\ infectedTime' = IF r.set
                                 THEN setInfectedTime(infectedTime, v, r.time)
                                 ELSE infectedTime
              /\ writes' = IF r.set
                           THEN Append(writes, [node |-> v, time |-> r.time, step |-> t])
                           ELSE writes
              /\ IF v = m_size - 1
                 THEN /\ x' = ndx
                      /\ dx' = ndx
                      /\ xOut' = Append(xOut, ndx)
                      /\ t' = t + 1
                      /\ v' = 0
                 ELSE /\ dx' = ndx
                      /\ v' = v + 1
                      /\ UNCHANGED <<x, xOut, t>>
              /\ lastFn' = IF traced
                           THEN [vID |-> v, xs |-> x, tm |-> t, dx |-> r.dx,
                                 tested |-> r.tested]
                           ELSE lastFn
    /\ UNCHANGED <<pc, states, nRecords, query, added, istates, exitCode,
                   probSI, ts, simLen, runs, antArg, ant, initial, i,
                   argc, outFreq, outFile>>

Fn == fnCall(FALSE)

\* writeRows with the last snapshot saved by a test of its own
RECURSIVE writeRowsLastApart(_, _, _, _)
writeRowsLastApart(file, run, traj, j) ==
    IF j >= Len(traj) THEN file
    ELSE LET row == [run |-> run + 1, time |-> j * ts, state |-> traj[j + 1]]
             f1 == IF j % outFreq = 0 THEN Append(file, row) ELSE file
             f2 == IF j = Len(traj) - 1 THEN Append(f1, row) ELSE f1
         IN  writeRowsLastApart(f2, run, traj, j + 1)

\* the for loop that saves one run: the rows of the snapshots j, j+1, ...
\* of traj (j counted from 0) appended to file; the observer's tOut[j] is j
RECURSIVE writeRows(_, _, _, _)
writeRows(file, run, traj, j) ==
    IF j >= Len(traj) THEN file
    ELSE IF j % outFreq = 0 \/ j = Len(traj) - 1
         THEN writeRows(Append(file, [run |-> run + 1, time |-> j * ts,
                                      state |-> traj[j + 1]]),
                        run, traj, j + 1)
         ELSE writeRows(file, run, traj, j + 1)

\* simulate returns; the run's rows are written and the loop goes on
RunEnd ==
    /\ pc = "sim"
    /\ t = simLen
    /\ outFile' = writeRows(outFile, i, xOut, 0)
    /\ i' = i + 1
    /\ pc' = "runs"
    /\ UNCHANGED <<states, infectedTime, nRecords, query, added, istates,
                   exitCode, probSI, ts, simLen, runs, antArg, ant, initial,
                   t, v, x, dx, xOut, writes, argc, outFreq, lastFn>>

\* DoRunsReturn for a doRuns that takes the network by value: the copy's
\* destructor frees the cells on return
DoRunsReturnFreesIndex ==
    /\ pc = "runs"
    /\ i = runs
    /\ states' = EmptyIndex
    /\ IF antArg = AllAnts /\ ant + 1 < m_size
       THEN EnterDoRuns(ant + 1)
       ELSE /\ exitCode' = 0
            /\ pc' = "exit"
            /\ UNCHANGED <<ant, initial, infectedTime, writes, i, outFile>>
    /\ UNCHANGED <<nRecords, query, added, istates, probSI, ts,
                   simLen, runs, antArg, t, v, x, dx, xOut, argc, outFreq, lastFn>>

\* doRuns returns: main runs the next ant or ends successfully
DoRunsReturn ==
    /\ pc = "runs"
    /\ i = runs
    /\ IF antArg = AllAnts /\ ant + 1 < m_size
       THEN EnterDoRuns(ant + 1)
       ELSE /\ exitCode' = 0
            /\ pc' = "exit"
            /\ UNCHANGED <<ant, initial, infectedTime, writes, i, outFile>>
    /\ UNCHANGED <<states, nRecords, query, added, istates, probSI, ts,
                   simLen, runs, antArg, t, v, x, dx, xOut, argc, outFreq, lastFn>>

Next == Main \/ LoadLine \/ LoadEof \/ RunBegin \/ Fn \/ RunEnd \/ DoRunsReturn

Spec == Init /\ [][Next]_vars

----------------------------------------------------------------------------
(* SpecCli: the program under every argument count; SpecOutput: the program
   under every output frequency.  Both run it at SI_PROB = 0.5 and with a
   timestep of one TimeGrain. *)

HalfProbVals == {ProbScale \div 2}
UnitTimestepVals == {TimeGrain}
OutFreqVals == 1 .. MaxOutFreq

MainCli == mainArgs(ArgcVals, HalfProbVals, UnitTimestepVals, AntVals, {1})

NextCli ==
    MainCli \/ LoadLine \/ LoadEof \/ RunBegin \/ Fn \/ RunEnd \/ DoRunsReturn

SpecCli == Init /\ [][NextCli]_vars

\* every ant in turn, or ant 1 alone
OutputAntVals == {AllAnts, 1}

MainOutput ==
    mainArgs({PrefixArgc}, HalfProbVals, UnitTimestepVals, OutputAntVals, OutFreqVals)

NextOutput ==
    MainOutput \/ LoadLine \/ LoadEof \/ RunBegin \/ Fn \/ RunEnd \/ DoRunsReturn

SpecOutput == Init /\ [][NextOutput]_vars

----------------------------------------------------------------------------
(* Claims on the simulation *)

Snapshots == 1 .. Len(xOut)

\* node n goes from Susceptible in snapshot j to Infected in snapshot j + 1
Transition(j, n) == xOut[j][n] = Susceptible /\ xOut[j + 1][n] = Infected

\* some node infected in snapshot j has a contact with n in the window of the
\* timestep j - 1 that leads from snapshot j to snapshot j + 1
InfectedContact(j, n) ==
    \E k \in Nodes :
        /\ k # n
        /\ xOut[j][k] = Infected
        /\ checkInteraction(states, k, n, (j - 1) * ts, j * ts) = Contact

\* C2: within one run, a node Infected at timestep k is Infected at every
\* later timestep of that run.
C2_InfectionMonotone ==
    \A j \in Snapshots, k \in Snapshots, n \in Nodes :
        (j < k /\ xOut[j][n] = Infected) => xOut[k][n] = Infected

\* a run in which a node other than the seed was infected before the last step
C2_Witness ==
    /\ pc = "sim"
    /\ Len(xOut) = 3
    /\ \E n \in Nodes : n # ant /\ xOut[2][n] = Infected /\ xOut[3][n] = Infected

\* C3: with SI_PROB = 0.0 no Susceptible -> Infected transition occurs,
\* whatever the random stream yields: in every snapshot exactly the seed node
\* is Infected.
C3_NoTransitionAtZeroProbability ==
    (pc \in {"sim", "runs"} /\ probSI = 0) =>
        \A j \in Snapshots, n \in Nodes : (xOut[j][n] = Infected) <=> (n = ant)

\* C4: a node Susceptible at timestep t and Infected at timestep t+1 has a
\* recorded contact, in the window of timestep t, with another node Infected
\* at timestep t; a node other than the seed with no recorded contact is
\* Susceptible in every snapshot.
C4_InfectionOnlyAlongContacts ==
    /\ \A j \in Snapshots, n \in Nodes :
          (j < Len(xOut) /\ Transition(j, n)) => InfectedContact(j, n)
    /\ \A n \in Nodes :
          (pc = "sim" /\ n # ant /\ \A m \in Nodes : cellOf(m, n) = <<>>)
          => \A j \in Snapshots : xOut[j][n] = Susceptible

\* a finished run with a transition, and a node no record mentions
C4_Witness ==
    /\ pc = "sim"
    /\ t = simLen
    /\ \E n \in Nodes : Transition(2, n)
    /\ \E n \in Nodes : n # ant /\ \A m \in Nodes : cellOf(m, n) = <<>>

ScenarioIndex == addUpdate(EmptyIndex, 0, 1, 10, 10)

\* N = 3, the single record (1,2,10.0,10.0), seed node 1, dt = 10.0, LEN = 2,
\* SI_PROB = 1.0
Scenario ==
    /\ pc \in {"sim", "runs"}
    /\ m_size = 3
    /\ states = ScenarioIndex
    /\ antArg = 1
    /\ ts = 10
    /\ simLen = 2
    /\ probSI = ProbScale

ScenarioSnapshot(j) ==
    [n \in Nodes |-> IF n = 0 \/ (n = 1 /\ j = 3) THEN Infected ELSE Susceptible]

C9_InfectedTimeResetAtTrialStart ==
    (pc = "sim" /\ t = 0 /\ v = 0) =>
        \A n \in Nodes :
            infectedTime[n] = IF n = ant THEN 0 ELSE NeverInfected

Writes == 1 .. Len(writes)

\* C10: within a run a node's infected-time is written at most once, at the
\* timestep t of its Susceptible -> Infected transition and with the value
\* t*dt; a node that makes no transition in the run has no write.
C10_InfectedTimeWrittenOncePerRun ==
    (pc = "sim") =>
        /\ \A a \in Writes, b \in Writes :
              (a # b) => writes[a].node # writes[b].node
        /\ \A a \in Writes :
              /\ writes[a].step \in 0 .. t
              /\ writes[a].time = writes[a].step * ts
              /\ xOut[writes[a].step + 1][writes[a].node] = Susceptible
              /\ IF writes[a].step < t
                 THEN xOut[writes[a].step + 2][writes[a].node] = Infected
                 ELSE dx[writes[a].node] = Infected
              /\ infectedTime[writes[a].node] = writes[a].time
        /\ \A j \in Snapshots, n \in Nodes :
              (j < Len(xOut) /\ Transition(j, n)) =>
                  \E a \in Writes :
                      writes[a] = [node |-> n, time |-> (j - 1) * ts, step |-> j - 1]

\* a finished run in which two nodes were infected at different timesteps
\* and the seed, which makes no transition, was not written
C10_Witness ==
    /\ pc = "sim"
    /\ t = simLen
    /\ Len(writes) = 2
    /\ writes[1].step = 0 /\ writes[2].step = 1
    /\ \A a \in Writes : writes[a].node # ant

----------------------------------------------------------------------------
(* Claims on doRuns and main *)

SeedOnly == [n \in Nodes |-> IF n = ant THEN Infected ELSE Susceptible]

SavedSnapshots(K) == {j \in 0 .. K : j % outFreq = 0 \/ j = K}

ValidAnt == antArg = AllAnts \/ antArg \in 1 .. m_size

\* C13: the program exits with 1, running no simulation, exactly when the
\* argument count is not 9 or 10 (8 mandatory arguments plus an optional
\* PREFIX) or ANT is neither -1 nor within [1, SIZE]; otherwise it runs the
\* simulations and exits with 0.
C13_ExitCodes ==
    (pc \in {"exit", "crashed"}) =>
        /\ pc = "exit"
        /\ IF argc \notin {MinArgc, PrefixArgc} \/ ~ValidAnt
           THEN exitCode = 1 /\ xOut = <<>>
           ELSE exitCode = 0 /\ Len(xOut) = simLen + 1

----------------------------------------------------------------------------
(* SpecBounds: the direct DynamicNet called with node ids inside and just
   outside [0, m_size).  getState indexes the malloc'ed table without a test:
   an index inside the table reaches the cell of another pair, an index
   outside it is undefined behaviour (the call crashes, or goes on without a
   visible effect on the table).  infectedTime->at(node) throws. *)

AnyIds == -1 .. m_size

inTable(k) == k >= 0 /\ k < m_size * m_size

validNode(node) == node >= 0 /\ node < m_size

\* getState(a, b).push_back(rec): the possible tables and outcomes
pushBack(st, k, rec) ==
    IF inTable(k)
    THEN {[st |-> [st EXCEPT ![k] = Append(@, rec)], outcome |-> "ok"]}
    ELSE {[st |-> st, outcome |-> "crash"], [st |-> st, outcome |-> "ok"]}

\* addUpdate for any ids: the possible tables and outcomes
addUpdateAnyIds(st, from, to, fromTime, toTime) ==
    UNION {IF r1.outcome = "crash"
           THEN {r1}
           ELSE pushBack(r1.st, getState(to, from), <<fromTime, toTime>>)
             : r1 \in pushBack(st, getState(from, to), <<fromTime, toTime>>)}

\* checkInteraction for any ids: the possible results and outcomes
checkInteractionAnyIds(st, from, to, t_start, t_end) ==
    IF inTable(getState(from, to))
    THEN {[result |-> checkInteraction(st, from, to, t_start, t_end), outcome |-> "ok"]}
    ELSE {[result |-> 0, outcome |-> "crash"],
          [result |-> NoContact, outcome |-> "ok"],
          [result |-> Contact, outcome |-> "ok"]}

\* infectedTime->at(node)
atOutcome(node) == IF validNode(node) THEN "ok" ELSE "out_of_range"

NoCall == [op |-> "none", a |-> 0, b |-> 0, outcome |-> "ok", changed |-> FALSE]

InitBounds ==
    /\ pc = "bounds"
    /\ states = EmptyIndex
    /\ istates = EmptyIndex
    /\ infectedTime = [n \in Nodes |-> NeverInfected]
    /\ nRecords = 0
    /\ query = NoCall
    /\ added = <<>>
    /\ IdleSim

afterCall(outcome) == IF outcome = "crash" THEN "crashed" ELSE "bounds"

CallAddUpdate ==
    /\ pc = "bounds"
    /\ nRecords < MaxRecords
    /\ \E from \in AnyIds, to \in AnyIds :
          \E r \in addUpdateAnyIds(states, from, to, 0, 0) :
             /\ states' = r.st
             /\ query' = [op |-> "addUpdate", a |-> from, b |-> to,
                          outcome |-> r.outcome, changed |-> (r.st # states)]
             /\ pc' = afterCall(r.outcome)
    /\ nRecords' = nRecords + 1
    /\ UNCHANGED <<infectedTime, added, istates, simVars>>

CallCheckInteraction ==
    /\ pc = "bounds"
    /\ \E from \in AnyIds, to \in AnyIds :
          \E r \in checkInteractionAnyIds(states, from, to, 0, TimeGrain) :
             /\ query' = [op |-> "checkInteraction", a |-> from, b |-> to,
                          outcome |-> r.outcome, changed |-> FALSE,
                          result |-> r.result]
             /\ pc' = afterCall(r.outcome)
    /\ UNCHANGED <<states, infectedTime, nRecords, added, istates, simVars>>

CallSetInfectedTime ==
    /\ pc = "bounds"
    /\ nRecords < MaxRecords
    /\ \E node \in AnyIds :
          /\ infectedTime' = IF validNode(node)
                             THEN setInfectedTime(infectedTime, node, 0)
                             ELSE infectedTime
          /\ query' = [op |-> "setInfectedTime", a |-> node, b |-> node,
                       outcome |-> atOutcome(node),
                       changed |-> (infectedTime' # infectedTime)]
    /\ nRecords' = nRecords + 1
    /\ UNCHANGED <<pc, states, added, istates, simVars>>

CallGetInfectedTime ==
    /\ pc = "bounds"
    /\ \E node \in AnyIds :
          query' = [op |-> "getInfectedTime", a |-> node, b |-> node,
                    outcome |-> atOutcome(node), changed |-> FALSE,
                    result |-> IF validNode(node) THEN getInfectedTime(node) ELSE 0]
    /\ UNCHANGED <<pc, states, infectedTime, nRecords, added, istates, simVars>>

NextBounds ==
    CallAddUpdate \/ CallCheckInteraction \/ CallSetInfectedTime \/ CallGetInfectedTime

SpecBounds == InitBounds /\ [][NextBounds]_vars

\* C14: addUpdate, checkInteraction, getInfectedTime and setInfectedTime fail
\* with a bounds error when a node id is outside [0,N), and leave the index
\* and the infected-time table unchanged.
C14_OutOfRangeIdFailsWithBoundsError ==
    (query.op # "none" /\ ~(validNode(query.a) /\ validNode(query.b))) =>
        /\ query.outcome = "out_of_range"
        /\ ~query.changed

----------------------------------------------------------------------------
(* SpecDraws: the program with the calls of fn traced, run from node 1 at
   SI_PROB = 0.5 on a file of up to MaxDrawRecords lines, enough for one
   node to have two infected neighbours in contact with it *)

MaxDrawRecords == 3

FirstAntVals == {1}

MainDraws ==
    mainArgs({PrefixArgc}, HalfProbVals, UnitTimestepVals, FirstAntVals, {1})

LoadLineDraws == loadLine(MaxDrawRecords)

FnTraced == fnCall(TRUE)

NextDraws ==
    MainDraws \/ LoadLineDraws \/ LoadEof \/ RunBegin \/ FnTraced \/ RunEnd
        \/ DoRunsReturn

SpecDraws == Init /\ [][NextDraws]_vars

FnCalled == lastFn.vID # -1

\* the neighbours of the node of call c that are Infected at the start of the
\* timestep and have a contact with it in the timestep's window
Qualifying(c) ==
    {k \in Nodes : /\ k # c.vID
                   /\ c.xs[k] = Infected
                   /\ checkInteraction(states, k, c.vID, c.tm * ts,
                                       (c.tm + 1) * ts) = Contact}

\* C16: a call of fn for an Infected node draws nothing; for a Susceptible
\* node it draws once for each qualifying neighbour, in ascending index and
\* skipping none, for no other neighbour, and stops at the first draw
\* <= probSI: the draws are those for the qualifying neighbours up to and
\* including the first success, or for all of them when every draw fails, and
\* the node is infected exactly in the first case.
C16_DrawPerQualifyingCandidate ==
    FnCalled =>
        LET c == lastFn
            Q == Qualifying(c)
            n == Len(c.tested)
        IN  /\ \A m \in 1 .. n :
                  /\ c.tested[m].id \in Q
                  /\ Cardinality({k \in Q : k < c.tested[m].id}) = m - 1
            /\ \A m \in 1 .. (n - 1) : c.tested[m].rnd > probSI
            /\ IF c.xs[c.vID] # Susceptible
               THEN n = 0 /\ c.dx = c.xs[c.vID]
               ELSE IF n > 0 /\ c.tested[n].rnd <= probSI
                    THEN c.dx = Infected
                    ELSE n = Cardinality(Q) /\ c.dx = Susceptible

\* a Susceptible node with two qualifying neighbours: the draw for the lower
\* one failed, the draw for the higher one succeeded
C16_Witness ==
    /\ FnCalled
    /\ lastFn.xs[lastFn.vID] = Susceptible
    /\ Len(lastFn.tested) = 2
    /\ lastFn.tested[1].rnd > probSI
    /\ lastFn.tested[2].rnd <= probSI
    /\ lastFn.dx = Infected

----------------------------------------------------------------------------
(* Claims on the simulation, continued *)

\* C15: no step of doRuns or of the simulation adds, removes or changes a
\* record: from the end of loading on, every cell keeps its contents.
C15_IndexReadOnlyDuringSimulation ==
    [][(pc \in {"runs", "sim"}) => (states' = states)]_vars

\* all runs of all seeds done on a loaded index, with a node infected by
\* another one in the last run
C15_Witness ==
    /\ pc = "exit" /\ exitCode = 0
    /\ antArg = AllAnts
    /\ nRecords = MaxRecords
    /\ \E n \in Nodes : n # ant /\ xOut[Len(xOut)][n] = Infected

\* C17: whether a node transitions in timestep t depends on the states at
\* the start of the timestep only: fn reads the last observed snapshot, a
\* node infected in the timestep does not infect in it, so that after one
\* timestep only nodes in contact with the seed itself are Infected.
C17_SynchronousUpdate ==
    (pc = "sim") =>
        /\ x = xOut[Len(xOut)]
        /\ \A n \in Nodes :
              (n < v /\ x[n] = Susceptible /\ dx[n] = Infected) =>
                  \E k \in Nodes :
                      /\ k # n
                      /\ x[k] = Infected
                      /\ checkInteraction(states, k, n, t * ts, (t + 1) * ts) = Contact
        /\ \A n \in Nodes :
              (Len(xOut) >= 2 /\ n # ant /\ xOut[2][n] = Infected) =>
                  checkInteraction(states, ant, n, 0, ts) = Contact

\* a chain seed -> b -> c: b, of lower index than c and in contact with c
\* in the first window, is infected in timestep 0; c, with no contact with
\* the seed, is infected one timestep later
C17_Witness ==
    /\ pc = "sim"
    /\ Len(xOut) = 3
    /\ \E b \in Nodes, c \in Nodes :
          /\ b < c /\ b # ant /\ c # ant
          /\ xOut[2][b] = Infected
          /\ xOut[2][c] = Susceptible
          /\ xOut[3][c] = Infected
          /\ checkInteraction(states, b, c, 0, ts) = Contact
          /\ checkInteraction(states, ant, c, 0, ts) = NoContact
          /\ checkInteraction(states, ant, c, ts, 2 * ts) = NoContact

----------------------------------------------------------------------------
(* SpecIndirectLoad: the constructor of the indirect variant reading a file
   of up to MaxLines lines.  A token is the sequence of its characters; a
   record is the sequence of the tokens of one line: a location, the global
   time, the actor's id (1-based), then one column for each node. *)

MaxLines == 2

none == <<"N", "A">>

Digits == {"0", "1", "2", "3"}

digitValue(c) ==
    CASE c = "0" -> 0 [] c = "1" -> 1 [] c = "2" -> 2 [] c = "3" -> 3

\* atof / atoi on a token without sign, point or blanks: the value of its
\* leading digits, 0 when it has none
RECURSIVE atofFrom(_, _, _)
atofFrom(tok, k, acc) ==
    IF k > Len(tok) THEN acc
    ELSE IF tok[k] \notin Digits THEN acc
         ELSE atofFrom(tok, k + 1, 10 * acc + digitValue(tok[k]))

atof(tok) == atofFrom(tok, 1, 0)

\* record[i].compare(0, 2, none) != 0
differsFromNone(tok) ==
    SubSeq(tok, 1, IF Len(tok) < 2 THEN Len(tok) ELSE 2) # none

LocationTokens == {<<"A">>}
TimeTokens == {<<"0">>, <<"1">>}
ActorTokens == {<<"1">>, <<"2">>, <<"3">>}
ColumnTokens == {none, <<"0">>, <<"2">>, <<"1", "0">>}

Records ==
    {<<loc, tm, actor>> \o cols :
        loc \in LocationTokens, tm \in TimeTokens, actor \in ActorTokens,
        cols \in [1 .. m_size -> ColumnTokens]}

\* the loop for (i = 3; i < m_size+3; ++i) adding records for both
\* directions of each column
RECURSIVE loadColumnsBothWays(_, _, _)
loadColumnsBothWays(st, record, c) ==
    IF c >= m_size + 3 THEN st
    ELSE LET from == atof(record[3]) - 1
             to == c - 3
         IN  IF differsFromNone(record[c + 1])
             THEN loadColumnsBothWays(
                      indirect_addUpdate(
                          indirect_addUpdate(st, from, to, atof(record[2]),
                                             atof(record[c + 1])),
                          to, from, atof(record[2]), atof(record[c + 1])),
                      record, c + 1)
             ELSE loadColumnsBothWays(st, record, c + 1)

\* the loop for (i = 3; i < m_size+3; ++i) over the columns of one record,
\* from column c on; record[i] of the source is record[i + 1] here
RECURSIVE loadColumns(_, _, _)
loadColumns(st, record, c) ==
    IF c >= m_size + 3 THEN st
    ELSE LET from == atof(record[3]) - 1
             to == c - 3
         IN  IF differsFromNone(record[c + 1])
             THEN loadColumns(indirect_addUpdate(st, from, to, atof(record[2]),
                                                 atof(record[c + 1])),
                              record, c + 1)
             ELSE loadColumns(st, record, c + 1)

InitIndirectLoad ==
    /\ pc = "iload"
    /\ states = EmptyIndex
    /\ istates = EmptyIndex
    /\ infectedTime = [n \in Nodes |-> NeverInfected]
    /\ nRecords = 0
    /\ query = NoQuery
    /\ added = <<>>
    /\ IdleSim

\* one line of the file: nRecords counts the lines, added keeps them
IndirectLoadLine ==
    /\ pc = "iload"
    /\ nRecords < MaxLines
    /\ \E record \in Records :
          /\ istates' = loadColumns(istates, record, 3)
          /\ added' = Append(added, record)
    /\ nRecords' = nRecords + 1
    /\ UNCHANGED <<pc, states, infectedTime, query, simVars>>

\* the end of the file
IndirectLoadEof ==
    /\ pc = "iload"
    /\ pc' = "iloaded"
    /\ UNCHANGED <<states, infectedTime, nRecords, query, added, istates, simVars>>

NextIndirectLoad == IndirectLoadLine \/ IndirectLoadEof

SpecIndirectLoad == InitIndirectLoad /\ [][NextIndirectLoad]_vars

\* the lines read so far whose actor is node a and whose column for node n
\* is not the NA marker, in the order of the file
LinesFor(a, n) ==
    SelectSeq(added, LAMBDA record :
                  /\ atof(record[3]) = a + 1
                  /\ record[n + 4] # none)

\* C18: after any number of lines, the cell of (a, n) holds exactly one
\* record (global time of the line, value of column n) for each line whose
\* actor is a and whose column n is not "NA", in the order of the lines, and
\* nothing else: an "NA" column adds nothing and the reverse cell (n, a) gets
\* nothing from a line of actor a.
C18_IndirectLoaderOneRecordPerColumn ==
    (pc \in {"iload", "iloaded"}) =>
        \A a \in Nodes, n \in Nodes :
            LET lines == LinesFor(a, n)
                cell == icellOf(a, n)
            IN  /\ Len(cell) = Len(lines)
                /\ \A k \in 1 .. Len(lines) :
                      cell[k] = <<atof(lines[k][2]), atof(lines[k][n + 4])>>

\* two lines of the same actor a loaded: column n holds a time in both and
\* another column is "NA"; the cell of (a, n) has the two records and the
\* reverse cell is empty
C18_Witness ==
    /\ pc = "iloaded"
    /\ Len(added) = 2
    /\ \E a \in Nodes, n \in Nodes :
          /\ a # n
          /\ Len(LinesFor(a, n)) = 2
          /\ icellOf(a, n) = <<<<0, 10>>, <<1, 2>>>>
          /\ icellOf(n, a) = <<>>
          /\ \E m \in Nodes : added[1][m + 4] = none

====
